---- MODULE Spec2Model ----
(***************************************************************************)
(* Model of enhanced_hsk_monitor.py: the TechnicalAnalyzer price window    *)
(* and its indicators, the K-line summary, the interpretation composer     *)
(* and the monitor loop of main().                                         *)
(*                                                                         *)
(* Numbers.  Prices are Python floats; the model draws them from small     *)
(* sets of whole numbers, on which float arithmetic is exact for sums,     *)
(* differences and comparisons.  A computed value is a record              *)
(*   [tag, n, d]   tag = "None"   : Python None                            *)
(*                 tag = "float"  : the number n/d (d > 0)                 *)
(*                 tag = "sqrt"   : the number sqrt(n/d) (statistics.stdev)*)
(*                 tag = "ZeroDivisionError" : the call raised             *)
(* so that a quotient is never rounded and 0 is told apart from None.      *)
(***************************************************************************)
EXTENDS Integers, Sequences, FiniteSets, TLC

VARIABLES
    pc,               \* position of main(): "fetch","test","send","sleep","interrupted","crashed"
    lookback_period,  \* TechnicalAnalyzer.lookback_period (deque maxlen)
    prices,           \* TechnicalAnalyzer.prices
    timestamps,       \* TechnicalAnalyzer.timestamps
    clock,            \* datetime.now(), a logical clock
    ticker_status,    \* outcome of the ticker request of the running cycle
    current_data,     \* main(): current_data of the running cycle
    report,           \* outcome of the last send_to_lark_webhook call
    cycles,           \* number of loop iterations started
    window_at_start,  \* the price window when the running cycle started
    appended,         \* every price passed to add_price, in order
    snap,             \* result of the last indicator query on the analyzer
    closes,           \* K-line batch handed to get_kline_analysis
    kline             \* result of the last get_kline_analysis call on closes

vars == <<pc, lookback_period, prices, timestamps, clock, ticker_status, current_data, report,
          cycles, window_at_start, appended, snap, closes, kline>>

-----------------------------------------------------------------------------
(* Bounds of the model *)

MaxCycles == 6
MaxAppends == 7
MaxCapacity == 6
MaxPeriod == 6
MaxBatch == 11
MaxShortBatch == 6

(* Program constants *)

DefaultLookback == 20
EmaPeriod == 12
RsiPeriod == 14
TrendWindow == 5
SupResMin == 5
SupResWindow == 8
VolatilityPeriod == 5
MomentumPeriod == 5
KlineTrendWindow == 10
KlineLevelBack == 5
KlineKeep == 5

(* Input sets *)

TickerPrices == {0, 100, 106}
TickerChanges == {250}          \* change_percentage in hundredths: +2.50
WindowPrices == {0, 1, 2}
ClosePrices == {0, 1, 2}
LongClosePrices == {1, 2}

-----------------------------------------------------------------------------
(* Values *)

None == [tag |-> "None", n |-> 0, d |-> 1]
Float(n, d) == [tag |-> "float", n |-> n, d |-> d]
Sqrt(n, d) == [tag |-> "sqrt", n |-> n, d |-> d]
ZeroDivisionError == [tag |-> "ZeroDivisionError", n |-> 0, d |-> 1]

IsNumber(v) == v.tag \in {"float", "sqrt"}

\* Python truthiness of an optional number: None and 0 are falsy
Truthy(v) == IsNumber(v) /\ v.n # 0

\* a > b for two "float" values with positive denominators
Gt(a, b) == a.n * b.d > b.n * a.d

Abs(x) == IF x < 0 THEN -x ELSE x

\* abs(v) > k and abs(v) < k for a "float" value v and a whole number k
AbsGt(v, k) == Abs(v.n) > k * v.d
AbsLt(v, k) == Abs(v.n) < k * v.d

RECURSIVE Sum(_)
Sum(s) == IF s = <<>> THEN 0 ELSE Head(s) + Sum(Tail(s))

RECURSIVE SumSq(_)
SumSq(s) == IF s = <<>> THEN 0 ELSE Head(s) * Head(s) + SumSq(Tail(s))

RECURSIVE Max(_)
Max(s) == IF Len(s) = 1 THEN s[1]
          ELSE LET m == Max(Tail(s)) IN IF s[1] > m THEN s[1] ELSE m

RECURSIVE Min(_)
Min(s) == IF Len(s) = 1 THEN s[1]
          ELSE LET m == Min(Tail(s)) IN IF s[1] < m THEN s[1] ELSE m

RECURSIVE Pow(_, _)
Pow(b, e) == IF e = 0 THEN 1 ELSE b * Pow(b, e - 1)

\* Python s[-k:] for k >= 1: the last k elements, the whole list if shorter
LastN(s, k) == IF Len(s) <= k THEN s ELSE SubSeq(s, Len(s) - k + 1, Len(s))

\* Python s[:k]
FirstN(s, k) == IF Len(s) <= k THEN s ELSE SubSeq(s, 1, k)

\* len(set(s)) == 1
AllSame(s) == Cardinality({s[i] : i \in 1..Len(s)}) = 1

\* statistics.stdev(s), len(s) >= 2: sqrt((n*sum(x^2) - sum(x)^2) / (n*(n-1)))
Stdev(s) == Sqrt(Len(s) * SumSq(s) - Sum(s) * Sum(s), Len(s) * (Len(s) - 1))

-----------------------------------------------------------------------------
(* TechnicalAnalyzer *)

\* variant of DequeAppend: the capacity test off by one
DequeAppend_mut(q, x, cap) ==
    IF Len(q) <= cap THEN Append(q, x) ELSE Append(Tail(q), x)

\* deque(maxlen=cap).append(x)
DequeAppend(q, x, cap) ==
    IF Len(q) < cap THEN Append(q, x) ELSE Append(Tail(q), x)

\* variant of calculate_sma: the history test off by one
calculate_sma_mut(w, cap, period) ==
    LET p == IF period = 0 THEN (IF cap < Len(w) THEN cap ELSE Len(w)) ELSE period
    IN  IF Len(w) <= p THEN None
        ELSE IF p = 0 THEN ZeroDivisionError
        ELSE Float(Sum(LastN(w, p)), p)

\* calculate_sma(period): w is list(self.prices); period = 0 stands for the
\* default period=None
calculate_sma(w, cap, period) ==
    LET p == IF period = 0 THEN (IF cap < Len(w) THEN cap ELSE Len(w)) ELSE period
    IN  IF Len(w) < p THEN None
        ELSE IF p = 0 THEN ZeroDivisionError
        ELSE Float(Sum(LastN(w, p)), p)

\* the loop of calculate_ema over prices[1:], as the numerator over
\* (period+1)^k after k iterations:
\*   ema = price * 2/(period+1) + ema * (1 - 2/(period+1))
RECURSIVE EmaNum(_, _, _)
EmaNum(s, k, period) ==
    IF k = 1 THEN s[1]
    ELSE 2 * s[k] * Pow(period + 1, k - 2) + (period - 1) * EmaNum(s, k - 1, period)

\* variant of calculate_ema: the history test off by one
calculate_ema_mut(w, period) ==
    IF Len(w) <= period THEN None
    ELSE LET s == LastN(w, period)
         IN  Float(EmaNum(s, Len(s), period), Pow(period + 1, Len(s) - 1))

calculate_ema(w, period) ==
    IF Len(w) < period THEN None
    ELSE LET s == LastN(w, period)
         IN  Float(EmaNum(s, Len(s), period), Pow(period + 1, Len(s) - 1))

\* the loop of calculate_rsi, for i in range(lo, hi + 1) (0-based i, so the
\* prices compared are w[i+1] and w[i] of the 1-based sequence): the gains
\* list when gain is TRUE, the losses list otherwise
RECURSIVE RsiCollect(_, _, _, _)
RsiCollect(w, i, hi, gain) ==
    IF i > hi THEN <<>>
    ELSE IF i = 0 THEN RsiCollect(w, i + 1, hi, gain)      \* continue
    ELSE LET up == w[i + 1] > w[i]
             g == IF up THEN w[i + 1] - w[i] ELSE 0
             l == IF up THEN 0 ELSE w[i] - w[i + 1]
         IN  <<IF gain THEN g ELSE l>> \o RsiCollect(w, i + 1, hi, gain)

RsiGains(w, period) == RsiCollect(w, Len(w) - period, Len(w) - 1, TRUE)
RsiLosses(w, period) == RsiCollect(w, Len(w) - period, Len(w) - 1, FALSE)

\* variant of calculate_rsi: the loop starts one index later
calculate_rsi_mut(w, period) ==
    IF Len(w) < period + 1 THEN None
    ELSE LET gains == RsiCollect(w, Len(w) - period + 1, Len(w) - 1, TRUE)
             losses == RsiCollect(w, Len(w) - period + 1, Len(w) - 1, FALSE)
         IN  IF Len(gains) < period \/ Len(losses) < period THEN None
             ELSE LET G == Sum(LastN(gains, period))
                      L == Sum(LastN(losses, period))
                  IN  IF L = 0 THEN Float(100, 1)
                      ELSE Float(100 * G, G + L)

calculate_rsi(w, period) ==
    IF Len(w) < period + 1 THEN None
    ELSE LET gains == RsiGains(w, period)
             losses == RsiLosses(w, period)
         IN  IF Len(gains) < period \/ Len(losses) < period THEN None
             ELSE LET G == Sum(LastN(gains, period))     \* avg_gain * period
                      L == Sum(LastN(losses, period))    \* avg_loss * period
                  IN  IF L = 0 THEN Float(100, 1)
                      ELSE Float(100 * G, G + L)   \* 100 - 100/(1 + G/L)

\* variant of get_trend: newest >= second-newest counts as rising
get_trend_mut(w) ==
    IF Len(w) < TrendWindow THEN "insufficient"
    ELSE LET r == LastN(w, TrendWindow)
             n == Len(r)
         IN  IF AllSame(r) THEN "neutral"
             ELSE IF r[n] > r[1]
                  THEN (IF r[n] >= r[n - 1] THEN "bullish" ELSE "bullish_reversal")
                  ELSE (IF r[n] < r[n - 1] THEN "bearish" ELSE "bearish_reversal")

get_trend(w) ==
    IF Len(w) < TrendWindow THEN "insufficient"
    ELSE LET r == LastN(w, TrendWindow)
             n == Len(r)
         IN  IF AllSame(r) THEN "neutral"
             ELSE IF r[n] > r[1]
                  THEN (IF r[n] > r[n - 1] THEN "bullish" ELSE "bullish_reversal")
                  ELSE (IF r[n] < r[n - 1] THEN "bearish" ELSE "bearish_reversal")

analyze_support_resistance(w, window_size) ==
    IF Len(w) < SupResMin THEN [support |-> None, resistance |-> None]
    ELSE LET r == IF Len(w) >= window_size THEN LastN(w, window_size) ELSE w
         IN  [support |-> Float(Min(r), 1), resistance |-> Float(Max(r), 1)]

get_volatility(w, period) ==
    IF Len(w) < period THEN None
    ELSE LET r == LastN(w, period)
         IN  IF AllSame(r) THEN Float(0, 1) ELSE Stdev(r)

get_momentum(w, period) ==
    IF Len(w) < period THEN None
    ELSE LET old_price == w[Len(w) - period + 1]
             current_price == w[Len(w)]
         IN  IF old_price = 0 THEN ZeroDivisionError
             ELSE Float((current_price - old_price) * 100, old_price)

-----------------------------------------------------------------------------
(* get_kline_analysis *)

\* sorted(s, reverse=True)
RECURSIVE SortedDesc(_)
SortedDesc(s) ==
    IF s = <<>> THEN <<>>
    ELSE LET m == Max(s)
             k == CHOOSE i \in 1..Len(s) : s[i] = m
         IN  <<m>> \o SortedDesc(SubSeq(s, 1, k - 1) \o SubSeq(s, k + 1, Len(s)))

\* sorted(s)
RECURSIVE SortedAsc(_)
SortedAsc(s) ==
    IF s = <<>> THEN <<>>
    ELSE LET m == Min(s)
             k == CHOOSE i \in 1..Len(s) : s[i] = m
         IN  <<m>> \o SortedAsc(SubSeq(s, 1, k - 1) \o SubSeq(s, k + 1, Len(s)))

\* closes[max(0, i-5):i+1] for the 0-based index i = j - 1
Trailing(c, j) == SubSeq(c, IF j - KlineLevelBack < 1 THEN 1 ELSE j - KlineLevelBack, j)

\* variant of recent_highs: sorted without reverse=True
recent_highs_mut(c) ==
    FirstN(SortedAsc([j \in 1..Len(c) |-> Max(Trailing(c, j))]), KlineKeep)

\* sorted([max(closes[max(0, i-5):i+1]) for i in range(len(closes))], reverse=True)[:5]
recent_highs(c) ==
    FirstN(SortedDesc([j \in 1..Len(c) |-> Max(Trailing(c, j))]), KlineKeep)

\* sorted([min(closes[max(0, i-5):i+1]) for i in range(len(closes))],)[:5]
recent_lows(c) ==
    FirstN(SortedAsc([j \in 1..Len(c) |-> Min(Trailing(c, j))]), KlineKeep)

\* variant of kline_trend_of: >= in place of >
kline_trend_of_mut(c) ==
    LET r == IF Len(c) >= KlineTrendWindow THEN LastN(c, KlineTrendWindow) ELSE c
    IN  IF r[Len(r)] >= r[1] THEN "bullish" ELSE "bearish"

\* recent_closes and the comparison that sets kline_trend
kline_trend_of(c) ==
    LET r == IF Len(c) >= KlineTrendWindow THEN LastN(c, KlineTrendWindow) ELSE c
    IN  IF r[Len(r)] > r[1] THEN "bullish" ELSE "bearish"

\* the local variables of get_kline_analysis once the analysis string is built
KlineLocals(c) ==
    [start_price |-> c[1],
     end_price |-> c[Len(c)],
     highest_price |-> Max(c),
     lowest_price |-> Min(c),
     kline_trend |-> kline_trend_of(c),
     resistance |-> IF recent_highs(c) # <<>> THEN Float(recent_highs(c)[1], 1) ELSE None,
     support |-> IF recent_lows(c) # <<>> THEN Float(recent_lows(c)[1], 1) ELSE None,
     volatility |-> IF Len(c) > 1 THEN Stdev(c) ELSE Float(0, 1)]

NoLocals ==
    [start_price |-> 0, end_price |-> 0, highest_price |-> 0, lowest_price |-> 0,
     kline_trend |-> "", resistance |-> None, support |-> None, volatility |-> None]

\* the string get_kline_analysis returns: text is which of its four texts,
\* and for the "K线分析: ..." text the parts it holds (None: part left out)
KlineText(text, trend, volatility, support, resistance) ==
    [text |-> text, trend |-> trend, volatility |-> volatility,
     support |-> support, resistance |-> resistance]

KlineFailed == KlineText("failed", "", None, None, None)             \* "K线数据获取失败"
KlineNoData == KlineText("no_data", "", None, None, None)            \* "无法获取K线数据"
KlineInsufficient == KlineText("insufficient", "", None, None, None) \* "K线数据不足"

\* the responses of the candlestick endpoint: status "ok" carries the closes
KlineErrors == {"HTTPError", "Timeout", "ConnectionError", "malformed"}
KlineResponse(status, c) == [status |-> status, closes |-> c]

\* whether the body of get_kline_analysis reaches the analysis string
KlineReached(resp) ==
    /\ resp.status = "ok"
    /\ Len(resp.closes) >= 2
    /\ resp.closes[1] # 0              \* overall_change divides by start_price

get_kline_analysis(resp) ==
    IF resp.status # "ok" THEN KlineFailed                 \* except Exception
    ELSE IF resp.closes = <<>> THEN KlineNoData            \* if not kline_data
    ELSE IF Len(resp.closes) < 2 THEN KlineInsufficient
    ELSE IF resp.closes[1] = 0 THEN KlineFailed            \* ZeroDivisionError, caught
    ELSE LET l == KlineLocals(resp.closes)
         IN  KlineText("analysis", l.kline_trend, l.volatility,
                       IF Truthy(l.support) THEN l.support ELSE None,
                       IF Truthy(l.resistance) THEN l.resistance ELSE None)

-----------------------------------------------------------------------------
(* generate_interpretation *)

\* one statement of the interpretation list: the rule that appended it and
\* which of the rule's texts it is
Stmt(rule, text) == [rule |-> rule, text |-> text]

Fallback == Stmt("fallback", "insufficient")         \* "技术指标不足，建议观望"

Opt(cond, stmt) == IF cond THEN <<stmt>> ELSE <<>>

generate_interpretation(current_price, trend, sma, rsi, sup_res, volatility, momentum, kline_trend, kline_volatility, kline_support, kline_resistance) ==
    LET trend_part ==
            IF trend # "insufficient"
            THEN IF trend \in {"bullish", "bullish_reversal"} THEN <<Stmt("trend", "rising")>>
                 ELSE IF trend \in {"bearish", "bearish_reversal"} THEN <<Stmt("trend", "falling")>>
                 ELSE <<>>
            ELSE <<>>
        sma_part ==
            IF Truthy(sma)
            THEN IF Gt(Float(current_price, 1), sma) THEN <<Stmt("sma", "above")>>
                 ELSE <<Stmt("sma", "below")>>
            ELSE <<>>
        rsi_part ==
            IF Truthy(rsi)
            THEN IF Gt(rsi, Float(70, 1)) THEN <<Stmt("rsi", "overbought")>>
                 ELSE IF Gt(Float(30, 1), rsi) THEN <<Stmt("rsi", "oversold")>>
                 ELSE <<Stmt("rsi", "neutral")>>
            ELSE <<>>
        levels_part ==
            IF Truthy(sup_res.support) /\ Truthy(sup_res.resistance)
            THEN IF current_price * 1000 <= sup_res.support.n * 1001   \* <= support * 1.001
                 THEN <<Stmt("levels", "near_support")>>
                 ELSE IF current_price * 1000 >= sup_res.resistance.n * 999   \* >= resistance * 0.999
                 THEN <<Stmt("levels", "near_resistance")>>
                 ELSE <<Stmt("levels", "between")>>
            ELSE <<>>
        momentum_part ==
            IF Truthy(momentum)
            THEN IF AbsGt(momentum, 5)
                 THEN <<Stmt("momentum", IF momentum.n > 0 THEN "strong_up" ELSE "strong_down")>>
                 ELSE IF AbsLt(momentum, 1) THEN <<Stmt("momentum", "weak")>>
                 ELSE <<>>
            ELSE <<>>
        kline_part == Opt(kline_trend # "unknown", Stmt("kline", kline_trend))
        interpretations ==
            trend_part \o sma_part \o rsi_part \o levels_part \o momentum_part \o kline_part
    IN  IF interpretations = <<>> THEN <<Fallback>> ELSE interpretations

-----------------------------------------------------------------------------
(* get_hsk_price *)

TickerErrors == {"HTTPError", "Timeout", "ConnectionError", "ValueError",
                 "KeyError", "empty_list", "not_list"}
TickerResponse(status, price, change) ==
    [status |-> status, price |-> price, change |-> change]

NoData == [tag |-> "None", price |-> 0, change_percentage |-> 0]
PriceData(price, change) == [tag |-> "dict", price |-> price, change_percentage |-> change]

\* variant of get_hsk_price: a record is returned for a failed request too
get_hsk_price_mut(resp) == PriceData(resp.price, resp.change)

\* the ticker record of a one-element list, None for every other response
get_hsk_price(resp) ==
    IF resp.status = "ok" THEN PriceData(resp.price, resp.change) ELSE NoData

-----------------------------------------------------------------------------
(* send_to_lark_webhook *)

\* lines 281-287: the indicator calls, in the order made
Indicators(w, cap) ==
    [sma |-> calculate_sma(w, cap, 0),
     ema |-> calculate_ema(w, EmaPeriod),
     rsi |-> calculate_rsi(w, RsiPeriod),
     trend |-> get_trend(w),
     sup_res |-> analyze_support_resistance(w, SupResWindow),
     volatility |-> get_volatility(w, VolatilityPeriod),
     momentum |-> get_momentum(w, MomentumPeriod)]

NoIndicators ==
    [sma |-> None, ema |-> None, rsi |-> None, trend |-> "",
     sup_res |-> [support |-> None, resistance |-> None],
     volatility |-> None, momentum |-> None]

\* lines 296-311: the parts read back out of the K-line analysis string
ParseKline(k) ==
    IF k.text = "analysis"
    THEN [kline_trend |-> k.trend,
          kline_volatility |-> "value",
          kline_support |-> IF k.support = None THEN "unknown" ELSE "value",
          kline_resistance |-> IF k.resistance = None THEN "unknown" ELSE "value"]
    ELSE [kline_trend |-> "unknown", kline_volatility |-> "unknown",
          kline_support |-> "unknown", kline_resistance |-> "unknown"]

\* lines 314-337: the names of the parts of the technical-analysis line
TaMessageParts(ind, pk) ==
    <<"trend">>
    \o Opt(Truthy(ind.sma), "SMA")
    \o Opt(Truthy(ind.ema), "EMA")
    \o Opt(Truthy(ind.rsi), "RSI")
    \o Opt(Truthy(ind.sup_res.support), "support")
    \o Opt(Truthy(ind.sup_res.resistance), "resistance")
    \o Opt(Truthy(ind.volatility), "volatility")
    \o Opt(Truthy(ind.momentum), "momentum")
    \o <<"kline_trend", "kline_volatility">>
    \o Opt(pk.kline_support # "unknown", "kline_support")
    \o Opt(pk.kline_resistance # "unknown", "kline_resistance")

\* variant of except_handlers: without the except Exception clause
except_handlers_mut(exc) == IF exc = "RequestException" THEN "False" ELSE "raise"

\* lines 364-369: what the two except clauses make of an exception of the body
except_handlers(exc) == IF exc = "RequestException" THEN "False" ELSE "False"

PostErrors == {"HTTPError", "Timeout", "ConnectionError"}

Report(ret, exc, composed, kline_status, kline_trend, ind, content, parts, interpretation) ==
    [ret |-> ret, exc |-> exc, composed |-> composed, kline_status |-> kline_status,
     kline_trend |-> kline_trend,
     indicators |-> ind, message_content |-> content, ta_message_parts |-> parts,
     interpretation |-> interpretation]

NoReport ==
    Report("none", "none", FALSE, "not_fetched", "unknown", NoIndicators, <<>>, <<>>, <<>>)

send_to_lark_webhook(price_data, w, cap, kresp, presp) ==
    LET ind == Indicators(w, cap)
    IN  IF ind.sma = ZeroDivisionError \/ ind.momentum = ZeroDivisionError
        THEN Report(except_handlers("ZeroDivisionError"), "ZeroDivisionError", FALSE,
                    "not_fetched", "unknown", NoIndicators, <<>>, <<>>, <<>>)
        ELSE LET pk == ParseKline(get_kline_analysis(kresp))
                 content == <<price_data.price, price_data.change_percentage>>
                 parts == TaMessageParts(ind, pk)
                 interpretation ==
                     generate_interpretation(price_data.price, ind.trend, ind.sma, ind.rsi,
                         ind.sup_res, ind.volatility, ind.momentum, pk.kline_trend,
                         pk.kline_volatility, pk.kline_support, pk.kline_resistance)
             IN  IF presp = "ok"
                 THEN Report("True", "none", TRUE, kresp.status, pk.kline_trend, ind,
                             content, parts, interpretation)
                 ELSE Report(except_handlers("RequestException"), "RequestException", TRUE,
                             kresp.status, pk.kline_trend, ind, content, parts,
                             interpretation)

-----------------------------------------------------------------------------
(* State shared by the specifications *)

\* TechnicalAnalyzer.add_price(price): both deques share maxlen
add_price(price) ==
    /\ prices' = DequeAppend(prices, price, lookback_period)
    /\ timestamps' = DequeAppend(timestamps, clock, lookback_period)
    /\ clock' = clock + 1
    /\ appended' = Append(appended, price)

NoSnap ==
    [valid |-> FALSE, period |-> 0, sma |-> None, ema |-> None, rsi |-> None,
     rsi_samples |-> 0, trend |-> "", sup_res |-> [support |-> None, resistance |-> None],
     volatility |-> None, momentum |-> None]

NoKline == [called |-> FALSE, status |-> "", ret |-> KlineFailed, locals |-> NoLocals]

\* TechnicalAnalyzer.__init__(lookback_period)
InitAnalyzer(cap) ==
    /\ lookback_period = cap
    /\ prices = <<>>
    /\ timestamps = <<>>
    /\ clock = 0
    /\ appended = <<>>
    /\ snap = NoSnap

-----------------------------------------------------------------------------
(* main(): the monitor loop *)

Running == {"fetch", "test", "send", "sleep"}

Init ==
    /\ InitAnalyzer(DefaultLookback)           \* tech_analyzer = TechnicalAnalyzer()
    /\ pc = "fetch"
    /\ ticker_status = ""
    /\ current_data = NoData
    /\ report = NoReport
    /\ cycles = 0
    /\ window_at_start = <<>>
    /\ closes = <<>>
    /\ kline = NoKline

TickerResponses ==
    {TickerResponse("ok", p, c) : p \in TickerPrices, c \in TickerChanges}
    \cup {TickerResponse(e, 0, 0) : e \in TickerErrors}

MainBatches == {<<>>, <<1>>, <<1, 2>>, <<2, 1>>, <<0, 1>>}

KlineResponses ==
    {KlineResponse("ok", c) : c \in MainBatches}
    \cup {KlineResponse(e, <<>>) : e \in KlineErrors}

\* line 436: current_data = get_hsk_price(), at the head of an iteration
FetchTicker ==
    /\ pc = "fetch"
    /\ cycles < MaxCycles
    /\ \E resp \in TickerResponses :
           /\ ticker_status' = resp.status
           /\ current_data' = get_hsk_price(resp)
    /\ cycles' = cycles + 1
    /\ window_at_start' = prices
    /\ report' = NoReport
    /\ pc' = "test"
    /\ UNCHANGED <<lookback_period, prices, timestamps, clock, appended, snap, closes, kline>>

\* lines 438-445: if current_data: ... tech_analyzer.add_price(current_price)
AddPrice ==
    /\ pc = "test"
    /\ current_data.tag = "dict"
    /\ add_price(current_data.price)
    /\ pc' = "send"
    /\ UNCHANGED <<lookback_period, ticker_status, current_data, report, cycles, window_at_start,
                   snap, closes, kline>>

\* lines 454-455: else: "Failed to fetch price data"
SkipCycle ==
    /\ pc = "test"
    /\ current_data.tag = "None"
    /\ pc' = "sleep"
    /\ UNCHANGED <<lookback_period, prices, timestamps, clock, ticker_status, current_data, report,
                   cycles, window_at_start, appended, snap, closes, kline>>

\* lines 448-453: success = send_to_lark_webhook(current_data, tech_analyzer);
\* main() has no handler of its own, so an exception the call lets out ends it
Send ==
    /\ pc = "send"
    /\ \E kresp \in KlineResponses, presp \in {"ok"} \cup PostErrors :
           report' = send_to_lark_webhook(current_data, prices, lookback_period, kresp, presp)
    /\ pc' = IF report'.ret = "raise" THEN "crashed" ELSE "sleep"
    /\ UNCHANGED <<lookback_period, prices, timestamps, clock, ticker_status, current_data, cycles,
                   window_at_start, appended, snap, closes, kline>>

\* line 459: time.sleep(600), then the next iteration
Sleep ==
    /\ pc = "sleep"
    /\ pc' = "fetch"
    /\ UNCHANGED <<lookback_period, prices, timestamps, clock, ticker_status, current_data, report,
                   cycles, window_at_start, appended, snap, closes, kline>>

\* lines 463-467: KeyboardInterrupt, the external signal
Interrupt ==
    /\ pc \in Running
    /\ pc' = "interrupted"
    /\ UNCHANGED <<lookback_period, prices, timestamps, clock, ticker_status, current_data, report,
                   cycles, window_at_start, appended, snap, closes, kline>>

Next == FetchTicker \/ AddPrice \/ SkipCycle \/ Send \/ Sleep \/ Interrupt

Spec == Init /\ [][Next]_vars

-----------------------------------------------------------------------------
(* The analyzer on its own: any capacity, any appends, any indicator call *)

InitA ==
    /\ \E cap \in 1..MaxCapacity : InitAnalyzer(cap)
    /\ pc = "idle"
    /\ ticker_status = ""
    /\ current_data = NoData
    /\ report = NoReport
    /\ cycles = 0
    /\ window_at_start = <<>>
    /\ closes = <<>>
    /\ kline = NoKline

AnalyzerAdd ==
    /\ Len(appended) < MaxAppends
    /\ \E p \in WindowPrices : add_price(p)
    /\ snap' = NoSnap
    /\ UNCHANGED <<pc, lookback_period, ticker_status, current_data, report, cycles, window_at_start,
                   closes, kline>>

\* the indicator methods called with an explicit period on the current window
Snapshot(w, cap, period) ==
    [valid |-> TRUE,
     period |-> period,
     sma |-> calculate_sma(w, cap, period),
     ema |-> calculate_ema(w, period),
     rsi |-> calculate_rsi(w, period),
     rsi_samples |-> IF Len(w) < period + 1 THEN 0 ELSE Len(RsiGains(w, period)),
     trend |-> get_trend(w),
     sup_res |-> analyze_support_resistance(w, period),
     volatility |-> get_volatility(w, period),
     momentum |-> get_momentum(w, period)]

AnalyzerQuery ==
    /\ ~snap.valid
    /\ \E period \in 1..MaxPeriod : snap' = Snapshot(prices, lookback_period, period)
    /\ UNCHANGED <<pc, lookback_period, prices, timestamps, clock, ticker_status, current_data, report,
                   cycles, window_at_start, appended, closes, kline>>

NextA == AnalyzerAdd \/ AnalyzerQuery

SpecAnalyzer == InitA /\ [][NextA]_vars

-----------------------------------------------------------------------------
(* get_kline_analysis on its own: any batch, any fetch outcome *)

Batches(S, lo, hi) == UNION {[1..n -> S] : n \in lo..hi}

KlineBatches ==
    Batches(ClosePrices, 0, MaxShortBatch)
    \cup Batches(LongClosePrices, MaxShortBatch + 1, MaxBatch)

InitK ==
    /\ InitAnalyzer(DefaultLookback)
    /\ pc = "idle"
    /\ ticker_status = ""
    /\ current_data = NoData
    /\ report = NoReport
    /\ cycles = 0
    /\ window_at_start = <<>>
    /\ closes \in KlineBatches
    /\ kline = NoKline

KlineAnalyze ==
    /\ ~kline.called
    /\ \E status \in {"ok"} \cup KlineErrors :
          LET resp == KlineResponse(status, closes)
          IN  kline' = [called |-> TRUE, status |-> status,
                        ret |-> get_kline_analysis(resp),
                        locals |-> IF KlineReached(resp) THEN KlineLocals(closes)
                                   ELSE NoLocals]
    /\ UNCHANGED <<pc, lookback_period, prices, timestamps, clock, ticker_status, current_data, report,
                   cycles, window_at_start, appended, snap, closes>>

NextK == KlineAnalyze

SpecKline == InitK /\ [][NextK]_vars

-----------------------------------------------------------------------------
(* Claims *)

Min2(a, b) == IF a < b THEN a ELSE b

\* C1: after any sequence of add_price calls on an analyzer of capacity N the
\* window holds at most N prices, and they are the last min(N, k) of the k
\* prices appended so far, in the order appended.
C1_WindowIsLastAppended ==
    /\ Len(prices) <= lookback_period
    /\ Len(prices) = Min2(lookback_period, Len(appended))
    /\ \A i \in 1..Len(prices) :
           prices[i] = appended[Len(appended) - Len(prices) + i]

C1_Witness ==
    /\ Len(appended) >= lookback_period + 2
    /\ Len(prices) = lookback_period
    /\ appended[1] # prices[1]

\* C2 as stated: a cycle in which the ticker fetch or the K-line fetch fails
\* is skipped and ends with the window it started with.
C2_Original ==
    (pc = "sleep" /\ (ticker_status \in TickerErrors \/ report.kline_status \in KlineErrors))
        => (prices = window_at_start /\ ~report.composed)

\* C2 amended: a cycle whose ticker fetch fails is skipped and ends with the
\* window it started with; a cycle whose K-line fetch fails is not skipped:
\* its report is composed and its window is the starting window with the
\* ticker price appended.
C2_Amended ==
    pc = "sleep" =>
        /\ ticker_status \in TickerErrors =>
               (prices = window_at_start /\ report = NoReport)
        /\ report.kline_status \in KlineErrors =>
               /\ report.composed
               /\ ticker_status = "ok"
               /\ prices = DequeAppend(window_at_start, current_data.price, lookback_period)

C2_Witness ==
    /\ pc = "sleep"
    /\ ticker_status \in TickerErrors
    /\ Len(window_at_start) >= 2

\* the first cycle of the loop with ticker price 100.0, change +2.5 and no
\* K-line analysis, once its message is composed
FirstCycleComposed ==
    /\ pc = "sleep"
    /\ window_at_start = <<>>
    /\ current_data = PriceData(100, 250)
    /\ report.composed
    /\ report.kline_trend = "unknown"

\* C3 as stated: that interpretation line is exactly the fallback statement.
C3_Original == FirstCycleComposed => report.interpretation = <<Fallback>>

\* C3 amended: that interpretation line is exactly the price-vs-SMA statement
\* "price below SMA 100.000000, bearish signal": the price is appended before
\* the indicators are computed, so SMA = 100.0 is present.
C3_Amended ==
    FirstCycleComposed =>
        /\ report.indicators.sma = Float(100, 1)
        /\ report.interpretation = <<Stmt("sma", "below")>>

C3_Witness == FirstCycleComposed /\ report.message_content = <<100, 250>>

\* C4: no exception escapes a cycle: every step of a started cycle leads on
\* towards its sleep step, the sleep step leads to the next cycle, and the
\* loop leaves this path only by the external interrupt.
C4_NoEscape ==
    [][ /\ pc' # "crashed"
        /\ pc = "fetch" => pc' \in {"test", "interrupted"}
        /\ pc = "test" => pc' \in {"send", "sleep", "interrupted"}
        /\ pc = "send" => pc' \in {"sleep", "interrupted"}
        /\ pc = "sleep" => pc' \in {"fetch", "interrupted"}
        /\ pc' = "interrupted" => UNCHANGED <<prices, report, cycles>> ]_vars

C4_Witness ==
    /\ pc = "sleep"
    /\ report.exc = "ZeroDivisionError"
    /\ report.ret = "False"
    /\ Len(prices) >= MomentumPeriod
    /\ prices[Len(prices) - MomentumPeriod + 1] = 0

\* C5: SMA, EMA, volatility and momentum of a period return None exactly when
\* the window holds fewer than period prices; get_trend returns the
\* insufficient label, and analyze_support_resistance two None levels,
\* exactly when the window holds fewer than 5 prices.
C5_AbsentIffShort ==
    snap.valid =>
        /\ (snap.sma = None) <=> (Len(prices) < snap.period)
        /\ (snap.ema = None) <=> (Len(prices) < snap.period)
        /\ (snap.volatility = None) <=> (Len(prices) < snap.period)
        /\ (snap.momentum = None) <=> (Len(prices) < snap.period)
        /\ (snap.trend = "insufficient") <=> (Len(prices) < 5)
        /\ (snap.sup_res.support = None /\ snap.sup_res.resistance = None)
               <=> (Len(prices) < 5)
        /\ (snap.sup_res.support = None) <=> (snap.sup_res.resistance = None)

C5_Witness ==
    /\ snap.valid
    /\ snap.period = 5
    /\ Len(prices) = 5
    /\ snap.ema # None
    /\ snap.volatility = Float(0, 1)
    /\ snap.momentum = Float(0, 1)

\* C6 as stated: calculate_rsi(period) returns None below period+1 prices,
\* collects only period-1 samples and returns None at exactly period+1
\* prices, and returns a value only above period+1 prices.
C6_Original ==
    snap.valid =>
        /\ Len(prices) < snap.period + 1 => snap.rsi = None
        /\ Len(prices) = snap.period + 1 =>
               (snap.rsi_samples = snap.period - 1 /\ snap.rsi = None)
        /\ snap.rsi # None => Len(prices) > snap.period + 1

\* C6 amended: calculate_rsi(period) returns None exactly when the window
\* holds fewer than period+1 prices; from period+1 prices on it collects
\* period samples and returns a value.
C6_Amended ==
    snap.valid =>
        /\ (snap.rsi = None) <=> (Len(prices) < snap.period + 1)
        /\ Len(prices) >= snap.period + 1 => snap.rsi_samples = snap.period

C6_Witness ==
    /\ snap.valid
    /\ snap.period >= 2
    /\ Len(prices) = snap.period + 1
    /\ snap.rsi_samples = snap.period
    /\ snap.rsi.tag = "float"
    /\ snap.rsi.n = 0

HasStmt(rule) == \E i \in 1..Len(report.interpretation) : report.interpretation[i].rule = rule

\* C7: generate_interpretation leaves out the statement of rule 2, 3, 4 or 5
\* only when the rule's indicator is None; an indicator that is 0 still gets
\* its statement (momentum between 1 and 5 in size has no statement).
\* Stated for windows of positive prices, where SMA and the levels are never
\* 0 and a 0 can only be a computed momentum or RSI.
C7_ZeroStillStated ==
    (report.composed /\ \A i \in 1..Len(prices) : prices[i] > 0) =>
        /\ report.indicators.sma # None => HasStmt("sma")
        /\ report.indicators.rsi # None => HasStmt("rsi")
        /\ (report.indicators.sup_res.support # None
              /\ report.indicators.sup_res.resistance # None) => HasStmt("levels")
        /\ (report.indicators.momentum # None
              /\ (AbsGt(report.indicators.momentum, 5) \/ AbsLt(report.indicators.momentum, 1)))
               => HasStmt("momentum")

\* the oldest close of the last-10 slice (of the whole batch below 10 closes)
OldestOfSlice == closes[IF Len(closes) >= 10 THEN Len(closes) - 9 ELSE 1]

\* C8 as stated: for a batch of at least 2 closes the K-line trend is bullish
\* when newest >= oldest-of-slice and bearish otherwise.
C8_Original ==
    (kline.called /\ kline.status = "ok" /\ Len(closes) >= 2) =>
        kline.ret.trend = IF closes[Len(closes)] >= OldestOfSlice THEN "bullish" ELSE "bearish"

\* C8 amended: for a batch of at least 2 closes whose first close is not 0
\* the K-line trend is bullish when newest > oldest-of-slice, strictly, and
\* bearish otherwise: a slice with equal newest and oldest closes is bearish.
C8_Amended ==
    (kline.called /\ kline.status = "ok" /\ Len(closes) >= 2 /\ closes[1] # 0) =>
        /\ kline.ret.text = "analysis"
        /\ kline.ret.trend = IF closes[Len(closes)] > OldestOfSlice THEN "bullish" ELSE "bearish"

C8_Witness ==
    /\ kline.called
    /\ kline.status = "ok"
    /\ Len(closes) > 10
    /\ closes[1] # OldestOfSlice
    /\ closes[Len(closes)] = OldestOfSlice
    /\ kline.ret.trend = "bearish"

\* the label the claim gives the last 5 prices a, b, c, d, e (e the newest)
LabelOfFive(a, b, c, d, e) ==
    IF a = b /\ b = c /\ c = d /\ d = e THEN "neutral"
    ELSE IF e > a THEN (IF e > d THEN "bullish" ELSE "bullish_reversal")
    ELSE (IF e < d THEN "bearish" ELSE "bearish_reversal")

\* C9: with at least 5 prices get_trend returns the label the last 5 prices
\* determine; older prices do not count.
C9_TrendOfLastFive ==
    (snap.valid /\ Len(prices) >= 5) =>
        LET n == Len(prices)
        IN  snap.trend = LabelOfFive(prices[n - 4], prices[n - 3], prices[n - 2],
                                     prices[n - 1], prices[n])

C9_Witness ==
    /\ snap.valid
    /\ Len(prices) > 5
    /\ prices[1] > prices[Len(prices)]
    /\ prices[Len(prices) - 1] > prices[Len(prices)]
    /\ snap.trend = "bullish_reversal"

IsGlobalMax(x) == (\E i \in 1..Len(closes) : closes[i] = x) /\ (\A i \in 1..Len(closes) : closes[i] <= x)
IsGlobalMin(x) == (\E i \in 1..Len(closes) : closes[i] = x) /\ (\A i \in 1..Len(closes) : closes[i] >= x)

\* C10: for a batch of at least 2 closes the largest trailing-window maximum
\* is the largest close of the batch and the smallest trailing-window minimum
\* is its smallest close.
C10_LevelsAreGlobalExtremes ==
    (kline.called /\ Len(closes) >= 2) =>
        /\ IsGlobalMax(recent_highs(closes)[1])
        /\ IsGlobalMin(recent_lows(closes)[1])
        /\ kline.ret.text = "analysis" =>
               /\ kline.locals.resistance.tag = "float"
               /\ kline.locals.support.tag = "float"
               /\ IsGlobalMax(kline.locals.resistance.n)
               /\ IsGlobalMin(kline.locals.support.n)

C10_Witness ==
    /\ kline.called
    /\ kline.ret.text = "analysis"
    /\ Len(closes) > 7
    /\ closes[1] = 2
    /\ \A i \in 2..Len(closes) : closes[i] = 1
    /\ kline.locals.resistance = Float(2, 1)

====
